---- MODULE Spec2Model ----
(***************************************************************************)
(* The payments engine: main.rs folds handle_transaction over the records  *)
(* of the input file and then writes one row per account.  The ledger is   *)
(* HashMapLedger (hashmap_ledger.rs): two maps, transactions_by_id and     *)
(* accounts_by_client_id.                                                  *)
(*                                                                         *)
(* Amounts are rust_decimal Decimals.  They are modelled as integers       *)
(* counted in one smallest unit; Decimal's + and - are exact inside the    *)
(* type's range and panic outside it.                                      *)
(***************************************************************************)
EXTENDS Integers, FiniteSets, Sequences, TLC

\* ---------------------------------------------------------------- bounds
\* the longest input file explored
MaxRecords == 5

\* Decimal::MAX (2^96 - 1 in the crate) scaled to the model's integers: the
\* magnitude beyond which Decimal's + and - panic.
DecimalMax == 1000

\* The ids and amounts the records of the input are drawn from.  The handlers
\* use client ids and transaction ids only as map keys and in one equality
\* test, so two of each give every case: the owner and another client, the
\* referenced transaction and another one.
Clients == {1, 2}
TxIds == {1, 2}
\* negative, zero and two positive amounts
Amounts == {0 - 1, 0, 1, 2}

StandardTransactionType == {"Deposit", "Withdrawal"}
DisputeTransactionType == {"Dispute", "Resolve", "Chargeback"}
\* Option<DisputeStatus>: None, Some(Unresolved), Some(Chargeback)
DisputeStatus == {"None", "Unresolved", "Chargeback"}

VARIABLES
    accounts_by_client_id,  \* client id -> Account, for the clients that have one
    transactions_by_id,     \* tx id -> StandardTransaction, for the recorded ids
    pc,                     \* main: "running", "done", "failed", "panicked"
    n,                      \* records read so far
    output,                 \* the rows written to stdout
    last,                   \* the transaction of the last handle_transaction call
    result,                 \* what that call returned
    prev_accounts,          \* accounts_by_client_id before that call
    prev_transactions,      \* transactions_by_id before that call
    submitted_ids,          \* the tx ids of the deposit / withdrawal records read
    ids_shared,             \* two deposit / withdrawal records read had one tx id
    submitted_clients       \* the clients of the deposit / withdrawal records
                            \* read whose amount was strictly positive

vars == <<accounts_by_client_id, transactions_by_id, pc, n, output,
          last, result, prev_accounts, prev_transactions,
          submitted_ids, ids_shared, submitted_clients>>

\* ------------------------------------------------------------ ledger.rs
Account_new(client_id) ==
    [available |-> 0, held |-> 0, is_locked |-> FALSE]

\* (mutant) the held funds left out of the total
TotalIsAvailable(account) == account.available

Account_total(account) == account.available + account.held

StandardTransaction(tx_type, client_id, tx_id, amount) ==
    [kind |-> "Standard", tx_type |-> tx_type, client_id |-> client_id,
     tx_id |-> tx_id, amount |-> amount]

DisputeTransaction(tx_type, client_id, tx_id) ==
    [kind |-> "Dispute", tx_type |-> tx_type, client_id |-> client_id,
     tx_id |-> tx_id]

NoTransaction == [kind |-> "None"]

\* Decimal's Add/Sub: the exact result, which the crate refuses (panics on)
\* when it is out of the type's range.
Overflowed(x) == x > DecimalMax \/ x < 0 - DecimalMax

\* ------------------------------------------------------ hashmap_ledger.rs
\* What one handler call leaves behind.
Outcome(res, accounts, transactions) ==
    [result |-> res, accounts |-> accounts, transactions |-> transactions]

\* (mutant) HashMap::insert in place of entry().or_insert_with(): the account
\* is replaced by a fresh one on every deposit / withdrawal
EntryInsertFresh(accounts, client_id) ==
    [c \in DOMAIN accounts \cup {client_id} |->
        IF c = client_id THEN Account_new(client_id) ELSE accounts[c]]

\* accounts_by_client_id.entry(client_id).or_insert_with(|| Account::new(client_id))
EntryOrInsert(accounts, client_id) ==
    IF client_id \in DOMAIN accounts
    THEN accounts
    ELSE [c \in DOMAIN accounts \cup {client_id} |->
            IF c = client_id THEN Account_new(client_id) ELSE accounts[c]]

\* the new available balance of a deposit / withdrawal
StandardAvailable(account, transaction) ==
    IF transaction.tx_type = "Deposit"
    THEN account.available + transaction.amount
    ELSE account.available - transaction.amount

\* the record stored for an accepted deposit / withdrawal
StoredTransaction(transaction) ==
    [tx_type |-> transaction.tx_type, client_id |-> transaction.client_id,
     amount |-> transaction.amount, dispute_status |-> "None"]

\* (mutant) HashMap::insert in place of the entry match: a duplicate id
\* overwrites the record
InsertTransactionOverwrite(accounts, transactions, transaction) ==
    Outcome("Ok", accounts,
        [t \in DOMAIN transactions \cup {transaction.tx_id} |->
            IF t = transaction.tx_id
            THEN StoredTransaction(transaction)
            ELSE transactions[t]])

\* transactions_by_id.entry(tx_id): Occupied is an error, Vacant inserts
InsertTransaction(accounts, transactions, transaction) ==
    IF transaction.tx_id \in DOMAIN transactions
    THEN Outcome("DuplicateTransactionId", accounts, transactions)
    ELSE Outcome("Ok", accounts,
            [t \in DOMAIN transactions \cup {transaction.tx_id} |->
                IF t = transaction.tx_id
                THEN StoredTransaction(transaction)
                ELSE transactions[t]])

\* (mutant) only a negative amount refused, as the error's text has it: a
\* deposit / withdrawal of zero goes on to the account
AmountInvalidIfNegative(transaction) == transaction.amount < 0

AmountInvalid(transaction) == transaction.amount <= 0

\* (mutant) the is_locked check left out
LockIgnored(account) == FALSE

LockBlocks(account) == account.is_locked

\* (mutant) the withdrawal checked against the total, held funds included
InsufficientTotal(account, transaction) ==
    /\ transaction.tx_type = "Withdrawal"
    /\ transaction.amount > account.available + account.held

InsufficientFunds(account, transaction) ==
    /\ transaction.tx_type = "Withdrawal"
    /\ transaction.amount > account.available

\* (mutant) the duplicate-id check moved in front of the balance update
handle_standard_DuplicateFirst(accounts, transactions, transaction) ==
    IF AmountInvalid(transaction)
    THEN Outcome("InvalidAmount", accounts, transactions)
    ELSE
      LET created == EntryOrInsert(accounts, transaction.client_id)
          account == created[transaction.client_id]
      IN  IF LockBlocks(account)
          THEN Outcome("AccountLocked", created, transactions)
          ELSE IF InsufficientFunds(account, transaction)
          THEN Outcome("InsufficientFunds", created, transactions)
          ELSE IF transaction.tx_id \in DOMAIN transactions
          THEN Outcome("DuplicateTransactionId", created, transactions)
          ELSE InsertTransaction(
                  [created EXCEPT ![transaction.client_id].available =
                        StandardAvailable(account, transaction)],
                  transactions, transaction)

handle_standard(accounts, transactions, transaction) ==
    IF AmountInvalid(transaction)
    THEN Outcome("InvalidAmount", accounts, transactions)
    ELSE
      LET created == EntryOrInsert(accounts, transaction.client_id)
          account == created[transaction.client_id]
      IN  IF LockBlocks(account)
          THEN Outcome("AccountLocked", created, transactions)
          ELSE IF InsufficientFunds(account, transaction)
          THEN Outcome("InsufficientFunds", created, transactions)
          ELSE
            LET available == StandardAvailable(account, transaction)
            IN  IF Overflowed(available)
                THEN Outcome("Panic", created, transactions)
                ELSE InsertTransaction(
                        [created EXCEPT ![transaction.client_id].available = available],
                        transactions, transaction)

\* What a dispute / resolve / chargeback does to the account and to the
\* transaction it references.
Effect(res, account, stored) ==
    [result |-> res, account |-> account, stored |-> stored]

\* (mutant) a dispute refused when the available funds do not cover it
ApplyDisputeIfFunded(account, stored) ==
    IF stored.dispute_status # "None"
    THEN Effect("AlreadyDisputed", account, stored)
    ELSE IF stored.amount > account.available
    THEN Effect("InsufficientFunds", account, stored)
    ELSE Effect("Ok",
            [account EXCEPT !.available = account.available - stored.amount,
                            !.held = account.held + stored.amount],
            [stored EXCEPT !.dispute_status = "Unresolved"])

\* (mutant) only an open dispute stops a new one: a charged back transaction
\* can be disputed again
ApplyDisputeUnlessUnresolved(account, stored) ==
    IF stored.dispute_status = "Unresolved"
    THEN Effect("AlreadyDisputed", account, stored)
    ELSE Effect("Ok",
            [account EXCEPT !.available = account.available - stored.amount,
                            !.held = account.held + stored.amount],
            [stored EXCEPT !.dispute_status = "Unresolved"])

\* (mutant) is_locked checked for disputes as it is for deposits
ApplyDisputeUnlessLocked(account, stored) ==
    IF account.is_locked
    THEN Effect("AccountLocked", account, stored)
    ELSE IF stored.dispute_status # "None"
    THEN Effect("AlreadyDisputed", account, stored)
    ELSE Effect("Ok",
            [account EXCEPT !.available = account.available - stored.amount,
                            !.held = account.held + stored.amount],
            [stored EXCEPT !.dispute_status = "Unresolved"])

\* (mutant) held set to the disputed amount where the code adds to it: a second
\* open dispute of the client replaces the first
ApplyDisputeReplacesHeld(account, stored) ==
    IF stored.dispute_status # "None"
    THEN Effect("AlreadyDisputed", account, stored)
    ELSE Effect("Ok",
            [account EXCEPT !.available = account.available - stored.amount,
                            !.held = stored.amount],
            [stored EXCEPT !.dispute_status = "Unresolved"])

\* DisputeTransactionType::Dispute
ApplyDispute(account, stored) ==
    IF stored.dispute_status # "None"
    THEN Effect("AlreadyDisputed", account, stored)
    ELSE
      LET available == account.available - stored.amount
          held == account.held + stored.amount
      IN  IF Overflowed(available) \/ Overflowed(held)
          THEN Effect("Panic", account, stored)
          ELSE Effect("Ok",
                  [account EXCEPT !.available = available, !.held = held],
                  [stored EXCEPT !.dispute_status = "Unresolved"])

\* (mutant) the funds restored to available but not taken out of held
ApplyResolveKeepsHeld(account, stored) ==
    IF stored.dispute_status = "Chargeback"
    THEN Effect("AlreadyChargedBack", account, stored)
    ELSE IF stored.dispute_status = "None"
    THEN Effect("NotDisputed", account, stored)
    ELSE Effect("Ok",
            [account EXCEPT !.available = account.available + stored.amount],
            [stored EXCEPT !.dispute_status = "None"])

\* DisputeTransactionType::Resolve
ApplyResolve(account, stored) ==
    IF stored.dispute_status = "Chargeback"
    THEN Effect("AlreadyChargedBack", account, stored)
    ELSE IF stored.dispute_status = "None"
    THEN Effect("NotDisputed", account, stored)
    ELSE
      LET available == account.available + stored.amount
          held == account.held - stored.amount
      IN  IF Overflowed(available) \/ Overflowed(held)
          THEN Effect("Panic", account, stored)
          ELSE Effect("Ok",
                  [account EXCEPT !.available = available, !.held = held],
                  [stored EXCEPT !.dispute_status = "None"])

\* (mutant) the charged back amount left in held
ApplyChargebackKeepsHeld(account, stored) ==
    IF stored.dispute_status = "Chargeback"
    THEN Effect("AlreadyChargedBack", account, stored)
    ELSE IF stored.dispute_status = "None"
    THEN Effect("NotDisputed", account, stored)
    ELSE Effect("Ok",
            [account EXCEPT !.is_locked = TRUE],
            [stored EXCEPT !.dispute_status = "Chargeback"])

\* (mutant) the charged back amount taken out of available as well
ApplyChargebackDebitsAvailable(account, stored) ==
    IF stored.dispute_status = "Chargeback"
    THEN Effect("AlreadyChargedBack", account, stored)
    ELSE IF stored.dispute_status = "None"
    THEN Effect("NotDisputed", account, stored)
    ELSE Effect("Ok",
            [account EXCEPT !.available = account.available - stored.amount,
                            !.held = account.held - stored.amount,
                            !.is_locked = TRUE],
            [stored EXCEPT !.dispute_status = "Chargeback"])

\* DisputeTransactionType::Chargeback
ApplyChargeback(account, stored) ==
    IF stored.dispute_status = "Chargeback"
    THEN Effect("AlreadyChargedBack", account, stored)
    ELSE IF stored.dispute_status = "None"
    THEN Effect("NotDisputed", account, stored)
    ELSE
      LET held == account.held - stored.amount
      IN  IF Overflowed(held)
          THEN Effect("Panic", account, stored)
          ELSE Effect("Ok",
                  [account EXCEPT !.held = held, !.is_locked = TRUE],
                  [stored EXCEPT !.dispute_status = "Chargeback"])

\* (mutant) the match on the referenced transaction's type left out
AnyTypeDisputable(stored) == TRUE

\* only deposits may be disputed
DisputableType(stored) == stored.tx_type = "Deposit"

\* (mutant) the comparison of the two client ids left out
ClientCheckSkipped(transaction, stored) == TRUE

\* the client id on the dispute entry must be the one on the transaction
ClientMatches(transaction, stored) == transaction.client_id = stored.client_id

\* (mutant) the transaction looked up before the account
handle_dispute_TransactionFirst(accounts, transactions, transaction) ==
    IF transaction.tx_id \notin DOMAIN transactions
    THEN Outcome("TransactionNotFound", accounts, transactions)
    ELSE IF transaction.client_id \notin DOMAIN accounts
    THEN Outcome("AccountNotFound", accounts, transactions)
    ELSE
      LET account == accounts[transaction.client_id]
          transaction_for_dispute == transactions[transaction.tx_id]
      IN  IF ~ClientMatches(transaction, transaction_for_dispute)
          THEN Outcome("ClientMismatch", accounts, transactions)
          ELSE IF ~DisputableType(transaction_for_dispute)
          THEN Outcome("CannotDisputeWithdrawal", accounts, transactions)
          ELSE
            LET e == CASE transaction.tx_type = "Dispute" ->
                            ApplyDispute(account, transaction_for_dispute)
                       [] transaction.tx_type = "Resolve" ->
                            ApplyResolve(account, transaction_for_dispute)
                       [] transaction.tx_type = "Chargeback" ->
                            ApplyChargeback(account, transaction_for_dispute)
            IN  Outcome(e.result,
                    [accounts EXCEPT ![transaction.client_id] = e.account],
                    [transactions EXCEPT ![transaction.tx_id] = e.stored])

handle_dispute(accounts, transactions, transaction) ==
    IF transaction.client_id \notin DOMAIN accounts
    THEN Outcome("AccountNotFound", accounts, transactions)
    ELSE IF transaction.tx_id \notin DOMAIN transactions
    THEN Outcome("TransactionNotFound", accounts, transactions)
    ELSE
      LET account == accounts[transaction.client_id]
          transaction_for_dispute == transactions[transaction.tx_id]
      IN  IF ~ClientMatches(transaction, transaction_for_dispute)
          THEN Outcome("ClientMismatch", accounts, transactions)
          ELSE IF ~DisputableType(transaction_for_dispute)
          THEN Outcome("CannotDisputeWithdrawal", accounts, transactions)
          ELSE
            LET e == CASE transaction.tx_type = "Dispute" ->
                            ApplyDispute(account, transaction_for_dispute)
                       [] transaction.tx_type = "Resolve" ->
                            ApplyResolve(account, transaction_for_dispute)
                       [] transaction.tx_type = "Chargeback" ->
                            ApplyChargeback(account, transaction_for_dispute)
            IN  Outcome(e.result,
                    [accounts EXCEPT ![transaction.client_id] = e.account],
                    [transactions EXCEPT ![transaction.tx_id] = e.stored])

handle_transaction(accounts, transactions, transaction) ==
    IF transaction.kind = "Standard"
    THEN handle_standard(accounts, transactions, transaction)
    ELSE handle_dispute(accounts, transactions, transaction)

\* ---------------------------------------------------------- csv_accounts.rs
\* one row per account: client, available, held, total, locked
Row(client_id, account) ==
    <<client_id, account.available, account.held, Account_total(account),
      account.is_locked>>

write_all(accounts) == {Row(c, accounts[c]) : c \in DOMAIN accounts}

\* ------------------------------------------------------------------ main.rs
Init ==
    /\ accounts_by_client_id = <<>>
    /\ transactions_by_id = <<>>
    /\ pc = "running"
    /\ n = 0
    /\ output = {}
    /\ last = NoTransaction
    /\ result = "None"
    /\ prev_accounts = <<>>
    /\ prev_transactions = <<>>
    /\ submitted_ids = {}
    /\ ids_shared = FALSE
    /\ submitted_clients = {}

\* One turn of the loop of main on a well-formed record: the call's error is
\* dropped (let _ = ...), a panic ends the process.
Applied(transaction) ==
    handle_transaction(accounts_by_client_id, transactions_by_id, transaction)

\* (mutant) the handler's error returned from main with `?`, as the reader's
\* error is
AfterCallPropagates(res) ==
    IF res = "Ok" THEN "running" ELSE IF res = "Panic" THEN "panicked"
    ELSE "failed"

\* where main is after a call: `let _ =` drops the Result, so the loop goes on
\* unless the call panicked
AfterCall(res) == IF res = "Panic" THEN "panicked" ELSE "running"

HandleStandard ==
    \E tx_type \in StandardTransactionType, c \in Clients, t \in TxIds,
       a \in Amounts :
        LET transaction == StandardTransaction(tx_type, c, t, a)
            o == Applied(transaction)
        IN  /\ pc = "running"
            /\ n < MaxRecords
            /\ n' = n + 1
            /\ last' = transaction
            /\ result' = o.result
            /\ prev_accounts' = accounts_by_client_id
            /\ prev_transactions' = transactions_by_id
            /\ accounts_by_client_id' = o.accounts
            /\ transactions_by_id' = o.transactions
            /\ pc' = AfterCall(o.result)
            /\ submitted_ids' = submitted_ids \cup {t}
            /\ ids_shared' = (ids_shared \/ t \in submitted_ids)
            /\ submitted_clients' =
                    IF a > 0 THEN submitted_clients \cup {c}
                    ELSE submitted_clients
            /\ UNCHANGED output

HandleDispute ==
    \E tx_type \in DisputeTransactionType, c \in Clients, t \in TxIds :
        LET transaction == DisputeTransaction(tx_type, c, t)
            o == Applied(transaction)
        IN  /\ pc = "running"
            /\ n < MaxRecords
            /\ n' = n + 1
            /\ last' = transaction
            /\ result' = o.result
            /\ prev_accounts' = accounts_by_client_id
            /\ prev_transactions' = transactions_by_id
            /\ accounts_by_client_id' = o.accounts
            /\ transactions_by_id' = o.transactions
            /\ pc' = AfterCall(o.result)
            /\ UNCHANGED <<output, submitted_ids, ids_shared, submitted_clients>>

\* amounts at the two ends of what a record can carry: the smallest unit and
\* the largest Decimal
WideAmounts == {1, DecimalMax}

\* the same turn of the loop for a deposit / withdrawal of such an amount
HandleStandardWide ==
    \E tx_type \in StandardTransactionType, c \in Clients, t \in TxIds,
       a \in WideAmounts :
        LET transaction == StandardTransaction(tx_type, c, t, a)
            o == Applied(transaction)
        IN  /\ pc = "running"
            /\ n < MaxRecords
            /\ n' = n + 1
            /\ last' = transaction
            /\ result' = o.result
            /\ prev_accounts' = accounts_by_client_id
            /\ prev_transactions' = transactions_by_id
            /\ accounts_by_client_id' = o.accounts
            /\ transactions_by_id' = o.transactions
            /\ pc' = AfterCall(o.result)
            /\ submitted_ids' = submitted_ids \cup {t}
            /\ ids_shared' = (ids_shared \/ t \in submitted_ids)
            /\ submitted_clients' =
                    IF a > 0 THEN submitted_clients \cup {c}
                    ELSE submitted_clients
            /\ UNCHANGED output

\* A record try_from refuses (a deposit / withdrawal without an amount, a
\* dispute / resolve / chargeback with one): main returns the error.  No
\* transaction is handled in this turn.
MalformedRecord ==
    /\ pc = "running"
    /\ n < MaxRecords
    /\ n' = n + 1
    /\ pc' = "failed"
    /\ last' = NoTransaction
    /\ result' = "None"
    /\ prev_accounts' = <<>>
    /\ prev_transactions' = <<>>
    /\ UNCHANGED <<accounts_by_client_id, transactions_by_id, output,
                   submitted_ids, ids_shared, submitted_clients>>

\* The input is exhausted: the accounts are written.  No transaction is
\* handled in this turn.
EndOfInput ==
    /\ pc = "running"
    /\ IF \E c \in DOMAIN accounts_by_client_id :
             Overflowed(Account_total(accounts_by_client_id[c]))
       THEN pc' = "panicked" /\ UNCHANGED output
       ELSE pc' = "done" /\ output' = write_all(accounts_by_client_id)
    /\ last' = NoTransaction
    /\ result' = "None"
    /\ prev_accounts' = <<>>
    /\ prev_transactions' = <<>>
    /\ UNCHANGED <<accounts_by_client_id, transactions_by_id, n,
                   submitted_ids, ids_shared, submitted_clients>>

Next == HandleStandard \/ HandleDispute \/ MalformedRecord \/ EndOfInput

Spec == Init /\ [][Next]_vars

\* the runs over inputs whose amounts reach the end of Decimal's range
NextWide ==
    HandleStandardWide \/ HandleDispute \/ MalformedRecord \/ EndOfInput

SpecWide == Init /\ [][NextWide]_vars

\* ------------------------------------------------------------------ claims
\* The last turn of the loop handled a transaction: last, result, prev_accounts
\* and prev_transactions describe that call of handle_transaction.
Called == last.kind # "None"

\* that call returned Err
ReturnedErr == Called /\ result \notin {"Ok", "Panic"}

\* the store is as it was before that call
StoreUntouched ==
    /\ accounts_by_client_id = prev_accounts
    /\ transactions_by_id = prev_transactions

\* C1: whenever handle_transaction returns an error, the set of accounts,
\* every account's available, held and locked, and the recorded transactions
\* with their dispute status are exactly as before the call.
C1_ErrorLeavesStoreUntouched == ReturnedErr => StoreUntouched

\* the last call was a deposit / withdrawal whose id was already recorded
DuplicateSubmitted ==
    /\ Called
    /\ last.kind = "Standard"
    /\ last.tx_id \in DOMAIN prev_transactions

\* C2: a deposit or withdrawal carrying an id that is already recorded is
\* rejected, whatever its client, kind and amount, and the record stored under
\* that id (client id, kind, amount, dispute status) is not overwritten.
C2_RecordedIdNeverRecordedAgain ==
    DuplicateSubmitted =>
        /\ result # "Ok"
        /\ transactions_by_id = prev_transactions

\* a duplicate that passed every other check, with another client, kind and
\* amount than the record it collides with, was rejected
C2_Witness ==
    /\ DuplicateSubmitted
    /\ result = "DuplicateTransactionId"
    /\ last.client_id # prev_transactions[last.tx_id].client_id
    /\ last.tx_type # prev_transactions[last.tx_id].tx_type
    /\ last.amount # prev_transactions[last.tx_id].amount

\* the last call was a dispute / resolve / chargeback of kind tx_type that
\* referenced a recorded deposit of the asserted client whose dispute status
\* was status
DisputeFamilyOn(tx_type, status) ==
    /\ Called
    /\ last.kind = "Dispute"
    /\ last.tx_type = tx_type
    /\ last.tx_id \in DOMAIN prev_transactions
    /\ prev_transactions[last.tx_id].tx_type = "Deposit"
    /\ prev_transactions[last.tx_id].client_id = last.client_id
    /\ prev_transactions[last.tx_id].dispute_status = status

\* the amount of the transaction the last call referenced
ReferencedAmount == prev_transactions[last.tx_id].amount

\* the account of the last call's client, before and after the call
AccountBefore == prev_accounts[last.client_id]
AccountAfter == accounts_by_client_id[last.client_id]

\* the last call changed nothing but the account of its client and the
\* dispute status of the transaction it referenced
OnlyReferencedChanged ==
    /\ DOMAIN accounts_by_client_id = DOMAIN prev_accounts
    /\ \A c \in DOMAIN prev_accounts \ {last.client_id} :
            accounts_by_client_id[c] = prev_accounts[c]
    /\ DOMAIN transactions_by_id = DOMAIN prev_transactions
    /\ \A t \in DOMAIN prev_transactions :
            transactions_by_id[t] =
                IF t = last.tx_id
                THEN [prev_transactions[t] EXCEPT !.dispute_status =
                        transactions_by_id[t].dispute_status]
                ELSE prev_transactions[t]

\* C3: a dispute on a recorded deposit of the asserted client whose dispute
\* status is absent succeeds whatever the available balance: the status becomes
\* Unresolved, available goes down by the amount (below zero, unclamped, when
\* it was smaller), held goes up by the amount, total and locked stay.
C3_DisputeMovesAvailableToHeld ==
    DisputeFamilyOn("Dispute", "None") =>
        /\ last.client_id \in DOMAIN prev_accounts
        /\ result = "Ok"
        /\ OnlyReferencedChanged
        /\ transactions_by_id[last.tx_id].dispute_status = "Unresolved"
        /\ AccountAfter.available = AccountBefore.available - ReferencedAmount
        /\ AccountAfter.held = AccountBefore.held + ReferencedAmount
        /\ Account_total(AccountAfter) = Account_total(AccountBefore)
        /\ AccountAfter.is_locked = AccountBefore.is_locked

\* a dispute was accepted on an account whose available balance was smaller
\* than the disputed amount, and left it negative
C3_Witness ==
    /\ DisputeFamilyOn("Dispute", "None")
    /\ result = "Ok"
    /\ AccountBefore.available < ReferencedAmount
    /\ AccountAfter.available < 0

\* C4: resolve reverses dispute.  A resolve on an Unresolved transaction sets
\* the status back to absent, adds the amount to available and takes it out of
\* held; a resolve right after an accepted dispute gives back the store from
\* before the dispute; and after a resolve the transaction can be disputed
\* again, which gives back the store from before the resolve.
C4_ResolveReversesDispute ==
    /\ DisputeFamilyOn("Resolve", "Unresolved") =>
        /\ last.client_id \in DOMAIN prev_accounts
        /\ result = "Ok"
        /\ OnlyReferencedChanged
        /\ transactions_by_id[last.tx_id].dispute_status = "None"
        /\ AccountAfter.available = AccountBefore.available + ReferencedAmount
        /\ AccountAfter.held = AccountBefore.held - ReferencedAmount
        /\ AccountAfter.is_locked = AccountBefore.is_locked
        /\ Applied(DisputeTransaction("Dispute", last.client_id, last.tx_id))
                = Outcome("Ok", prev_accounts, prev_transactions)
    /\ (DisputeFamilyOn("Dispute", "None") /\ result = "Ok") =>
            Applied(DisputeTransaction("Resolve", last.client_id, last.tx_id))
                = Outcome("Ok", prev_accounts, prev_transactions)

\* a resolve was accepted on an account a dispute had left in deficit, and
\* cleared the deficit and the held funds
C4_Witness ==
    /\ DisputeFamilyOn("Resolve", "Unresolved")
    /\ result = "Ok"
    /\ AccountBefore.available < 0
    /\ AccountAfter.available >= 0
    /\ AccountAfter.held = 0

\* C5: a chargeback on an Unresolved transaction sets the status to
\* ChargedBack, takes the amount out of held, leaves available as it is (a
\* negative available too), locks the account, and so lowers total by the
\* amount.
C5_ChargebackRemovesHeldAndLocks ==
    DisputeFamilyOn("Chargeback", "Unresolved") =>
        /\ last.client_id \in DOMAIN prev_accounts
        /\ result = "Ok"
        /\ OnlyReferencedChanged
        /\ transactions_by_id[last.tx_id].dispute_status = "Chargeback"
        /\ AccountAfter.held = AccountBefore.held - ReferencedAmount
        /\ AccountAfter.available = AccountBefore.available
        /\ AccountAfter.is_locked
        /\ Account_total(AccountAfter) =
                Account_total(AccountBefore) - ReferencedAmount

\* a chargeback was accepted on an unlocked account in deficit
C5_Witness ==
    /\ DisputeFamilyOn("Chargeback", "Unresolved")
    /\ result = "Ok"
    /\ ~AccountBefore.is_locked
    /\ AccountBefore.available < 0
    /\ AccountAfter.available < 0
    /\ AccountAfter.is_locked

\* the dispute status of every recorded transaction changes in this step only
\* along none -> Unresolved by a dispute, Unresolved -> none by a resolve,
\* Unresolved -> ChargedBack by a chargeback of that transaction
StatusStep ==
    \A t \in DOMAIN transactions_by_id :
        /\ t \in DOMAIN transactions_by_id'
        /\ LET before == transactions_by_id[t].dispute_status
               after == transactions_by_id'[t].dispute_status
           IN  \/ after = before
               \/ /\ last'.kind = "Dispute"
                  /\ last'.tx_id = t
                  /\ result' = "Ok"
                  /\ \/ /\ before = "None"
                        /\ after = "Unresolved"
                        /\ last'.tx_type = "Dispute"
                     \/ /\ before = "Unresolved"
                        /\ after = "None"
                        /\ last'.tx_type = "Resolve"
                     \/ /\ before = "Unresolved"
                        /\ after = "Chargeback"
                        /\ last'.tx_type = "Chargeback"

\* what a dispute / resolve / chargeback that cannot act is answered
StatusRejections ==
    /\ DisputeFamilyOn("Dispute", "Chargeback") =>
            result = "AlreadyDisputed" /\ StoreUntouched
    /\ DisputeFamilyOn("Resolve", "Chargeback") =>
            result = "AlreadyChargedBack" /\ StoreUntouched
    /\ DisputeFamilyOn("Chargeback", "Chargeback") =>
            result = "AlreadyChargedBack" /\ StoreUntouched
    /\ DisputeFamilyOn("Resolve", "None") =>
            result = "NotDisputed" /\ StoreUntouched
    /\ DisputeFamilyOn("Chargeback", "None") =>
            result = "NotDisputed" /\ StoreUntouched

\* C6: in every step the dispute status of a recorded transaction changes only
\* none -> Unresolved (dispute), Unresolved -> none (resolve) or Unresolved ->
\* ChargedBack (chargeback); ChargedBack never changes again: a dispute on it
\* is rejected as already disputed, a resolve or chargeback as already charged
\* back; a resolve or chargeback on a transaction with no status is rejected
\* as not disputed.
C6_DisputeStatusTransitions ==
    /\ [][StatusStep]_vars
    /\ [][\A t \in DOMAIN transactions_by_id :
            transactions_by_id[t].dispute_status = "Chargeback" =>
                transactions_by_id'[t].dispute_status = "Chargeback"]_vars
    /\ []StatusRejections

\* a dispute of a charged back transaction was rejected as already disputed
C6_Witness ==
    /\ DisputeFamilyOn("Dispute", "Chargeback")
    /\ result = "AlreadyDisputed"
    /\ transactions_by_id[last.tx_id].dispute_status = "Chargeback"

\* C7: is_locked is monotonic: false when the account is created, and once
\* true it is true in every later state (and the account is never removed).
C7_LockedMonotonic ==
    [][\A c \in Clients :
        /\ c \in DOMAIN accounts_by_client_id =>
            /\ c \in DOMAIN accounts_by_client_id'
            /\ accounts_by_client_id[c].is_locked =>
                    accounts_by_client_id'[c].is_locked
        /\ (c \notin DOMAIN accounts_by_client_id
                /\ c \in DOMAIN accounts_by_client_id') =>
            ~accounts_by_client_id'[c].is_locked]_vars

\* a deposit was sent to a locked account, which is still locked
C7_Witness ==
    /\ Called
    /\ last.kind = "Standard"
    /\ last.tx_type = "Deposit"
    /\ last.amount > 0
    /\ last.client_id \in DOMAIN prev_accounts
    /\ AccountBefore.is_locked
    /\ AccountAfter.is_locked

\* the last call was a deposit / withdrawal for a client whose account was
\* locked
StandardOnLocked ==
    /\ Called
    /\ last.kind = "Standard"
    /\ last.client_id \in DOMAIN prev_accounts
    /\ AccountBefore.is_locked

\* C8: once an account is locked, every deposit and withdrawal for that client
\* is rejected, whatever its amount and id, and changes neither the balances
\* nor the recorded transactions.
C8_LockedRejectsStandard ==
    StandardOnLocked => (result # "Ok" /\ StoreUntouched)

\* a withdrawal the funds would cover, under an unused id, was rejected
\* because the account is locked
C8_Witness ==
    /\ StandardOnLocked
    /\ last.tx_type = "Withdrawal"
    /\ last.amount > 0
    /\ last.amount <= AccountBefore.available
    /\ last.tx_id \notin DOMAIN prev_transactions
    /\ result = "AccountLocked"

\* the accounts with client c's lock cleared
Unlocked(accounts, c) == [accounts EXCEPT ![c].is_locked = FALSE]

\* C9: the lock does not block dispute-family transactions: on a locked
\* account a dispute, resolve or chargeback is accepted or rejected as it
\* would be were the account not locked, with the same effect on the status,
\* available and held.
C9_LockDoesNotBlockDisputes ==
    /\ \A c \in DOMAIN accounts_by_client_id, t \in TxIds,
            tx_type \in DisputeTransactionType :
        accounts_by_client_id[c].is_locked =>
            LET d == DisputeTransaction(tx_type, c, t)
                onLocked == handle_transaction(accounts_by_client_id,
                                transactions_by_id, d)
                onUnlocked == handle_transaction(
                                Unlocked(accounts_by_client_id, c),
                                transactions_by_id, d)
            IN  /\ onLocked.result = onUnlocked.result
                /\ onLocked.transactions = onUnlocked.transactions
                /\ onLocked.accounts[c].available =
                        onUnlocked.accounts[c].available
                /\ onLocked.accounts[c].held = onUnlocked.accounts[c].held
    /\ (DisputeFamilyOn("Dispute", "None") /\ AccountBefore.is_locked) =>
            result = "Ok"
    /\ (DisputeFamilyOn("Resolve", "Unresolved") /\ AccountBefore.is_locked) =>
            result = "Ok"
    /\ (DisputeFamilyOn("Chargeback", "Unresolved") /\ AccountBefore.is_locked) =>
            result = "Ok"

\* a dispute of another deposit was accepted on a locked account
C9_Witness ==
    /\ DisputeFamilyOn("Dispute", "None")
    /\ AccountBefore.is_locked
    /\ result = "Ok"
    /\ transactions_by_id[last.tx_id].dispute_status = "Unresolved"
    /\ \E t \in DOMAIN transactions_by_id \ {last.tx_id} :
            /\ transactions_by_id[t].client_id = last.client_id
            /\ transactions_by_id[t].dispute_status = "Chargeback"

\* the last call was a dispute / resolve / chargeback that referenced a
\* recorded withdrawal
DisputeFamilyOnWithdrawal ==
    /\ Called
    /\ last.kind = "Dispute"
    /\ last.tx_id \in DOMAIN prev_transactions
    /\ prev_transactions[last.tx_id].tx_type = "Withdrawal"

\* C10: a recorded withdrawal can never be disputed: a dispute, resolve or
\* chargeback that references one is rejected and changes no balance, so the
\* dispute status of a withdrawal is absent in every reachable state.
C10_WithdrawalNeverDisputed ==
    /\ DisputeFamilyOnWithdrawal => (result # "Ok" /\ StoreUntouched)
    /\ \A t \in DOMAIN transactions_by_id :
            transactions_by_id[t].tx_type = "Withdrawal" =>
                transactions_by_id[t].dispute_status = "None"

\* the owner's dispute of a recorded withdrawal was rejected for being one
C10_Witness ==
    /\ DisputeFamilyOnWithdrawal
    /\ last.tx_type = "Dispute"
    /\ prev_transactions[last.tx_id].client_id = last.client_id
    /\ result = "CannotDisputeWithdrawal"

\* the last call was a dispute / resolve / chargeback
DisputeFamilyCalled == Called /\ last.kind = "Dispute"

\* the id it referenced was recorded, for the client it asserted
ReferenceValid ==
    /\ last.tx_id \in DOMAIN prev_transactions
    /\ prev_transactions[last.tx_id].client_id = last.client_id

\* C11: a dispute, resolve or chargeback takes effect only when it references
\* the id of a recorded deposit / withdrawal and asserts the client id recorded
\* on it; when the id is unknown or the client ids differ it is rejected, and
\* neither the asserted client's account, nor the owner's account, nor the
\* referenced transaction's dispute status changes.
C11_DisputeNeedsRecordedIdAndOwner ==
    DisputeFamilyCalled =>
        /\ ~StoreUntouched => ReferenceValid
        /\ result = "Ok" => ReferenceValid
        /\ ~ReferenceValid => (result # "Ok" /\ StoreUntouched)

\* a client with an account disputed another client's undisputed deposit and
\* was rejected for not owning it
C11_Witness ==
    /\ DisputeFamilyCalled
    /\ last.tx_type = "Dispute"
    /\ last.client_id \in DOMAIN prev_accounts
    /\ last.tx_id \in DOMAIN prev_transactions
    /\ prev_transactions[last.tx_id].client_id # last.client_id
    /\ prev_transactions[last.tx_id].tx_type = "Deposit"
    /\ prev_transactions[last.tx_id].dispute_status = "None"
    /\ result = "ClientMismatch"

\* the last call was a withdrawal
WithdrawalCalled ==
    /\ Called
    /\ last.kind = "Standard"
    /\ last.tx_type = "Withdrawal"

\* the account the last call's client had before the call: the zeroed one
\* that is created for a client without an account
AccountBeforeOrNew ==
    IF last.client_id \in DOMAIN prev_accounts
    THEN prev_accounts[last.client_id]
    ELSE Account_new(last.client_id)

\* C12: a withdrawal is checked against available only, never against held or
\* total.  With an amount greater than available it is rejected and available
\* stays (funds under dispute cannot be withdrawn); with an amount equal to
\* available it succeeds (the amount being positive, the account unlocked and
\* the id unused) and leaves available 0; after an accepted withdrawal
\* available is not negative.
C12_WithdrawalCheckedAgainstAvailable ==
    WithdrawalCalled =>
        /\ last.amount > AccountBeforeOrNew.available =>
            /\ result # "Ok"
            /\ transactions_by_id = prev_transactions
            /\ last.client_id \in DOMAIN accounts_by_client_id =>
                    AccountAfter = AccountBeforeOrNew
        /\ (/\ last.amount > 0
            /\ last.amount <= AccountBeforeOrNew.available
            /\ ~AccountBeforeOrNew.is_locked
            /\ last.tx_id \notin DOMAIN prev_transactions) =>
            /\ result = "Ok"
            /\ AccountAfter.available =
                    AccountBeforeOrNew.available - last.amount
            /\ last.amount = AccountBeforeOrNew.available =>
                    AccountAfter.available = 0
        /\ result = "Ok" =>
            /\ AccountAfter.available >= 0
            /\ AccountAfter.held = AccountBeforeOrNew.held

\* a withdrawal that the total would cover, but not available because the
\* funds are held by a dispute, was rejected
C12_Witness ==
    /\ WithdrawalCalled
    /\ last.amount > 0
    /\ last.client_id \in DOMAIN prev_accounts
    /\ ~AccountBefore.is_locked
    /\ last.amount > AccountBefore.available
    /\ last.amount <= Account_total(AccountBefore)
    /\ result = "InsufficientFunds"
    /\ AccountAfter = AccountBefore

\* client c's held balance in accounts, 0 while c has no account
HeldOf(accounts, c) ==
    IF c \in DOMAIN accounts THEN accounts[c].held ELSE 0

\* what a change of dispute status from before to after does to held, per
\* unit of the transaction's amount
HeldSign(before, after) ==
    IF before = "None" /\ after = "Unresolved" THEN 1
    ELSE IF before = "Unresolved" /\ after \in {"None", "Chargeback"}
    THEN 0 - 1
    ELSE 0

\* in this step, for every client, held changes exactly when the dispute
\* status of exactly one of the client's recorded transactions changes, by
\* that transaction's amount; a deposit, a withdrawal and a rejected
\* transaction leave every held balance alone
HeldStep ==
    \A c \in Clients :
        LET changed ==
                {t \in DOMAIN transactions_by_id :
                    /\ transactions_by_id[t].client_id = c
                    /\ t \in DOMAIN transactions_by_id'
                    /\ transactions_by_id'[t].dispute_status #
                            transactions_by_id[t].dispute_status}
            before == HeldOf(accounts_by_client_id, c)
            after == HeldOf(accounts_by_client_id', c)
        IN  /\ Cardinality(changed) <= 1
            /\ (after # before) <=> (Cardinality(changed) = 1)
            /\ \A t \in changed :
                    after - before =
                        transactions_by_id[t].amount *
                        HeldSign(transactions_by_id[t].dispute_status,
                                 transactions_by_id'[t].dispute_status)
            /\ (last'.kind # "Dispute" \/ result' # "Ok") => after = before

\* C13: in every step an account's held balance changes if and only if the
\* dispute status of exactly one recorded transaction of that client changes
\* in that step, by that transaction's amount (plus on none -> Unresolved,
\* minus on Unresolved -> none and Unresolved -> ChargedBack); deposits,
\* withdrawals and rejected transactions never change held.
C13_HeldFollowsDisputeStatus == [][HeldStep]_vars

\* a chargeback took its amount out of held while another dispute of the same
\* client stayed open
C13_Witness ==
    /\ DisputeFamilyOn("Chargeback", "Unresolved")
    /\ result = "Ok"
    /\ AccountAfter.held = AccountBefore.held - ReferencedAmount
    /\ AccountAfter.held > 0
    /\ \E t \in DOMAIN transactions_by_id \ {last.tx_id} :
            /\ transactions_by_id[t].client_id = last.client_id
            /\ transactions_by_id[t].dispute_status = "Unresolved"

\* C14: idempotence of rejection: a transaction that was rejected, issued
\* again right away, is rejected again with the same error, and neither
\* attempt changes the store.
C14_RejectionIdempotent ==
    ReturnedErr =>
        /\ StoreUntouched
        /\ Applied(last) =
                Outcome(result, accounts_by_client_id, transactions_by_id)

\* C15: in every reachable state and in every emitted row, an account's total
\* is its available plus its held: the total is computed from the two when it
\* is asked for, so no sequence of transactions makes the reported total
\* differ from available + held.
C15_TotalIsAvailablePlusHeld ==
    /\ \A c \in DOMAIN accounts_by_client_id :
            Account_total(accounts_by_client_id[c]) =
                accounts_by_client_id[c].available +
                accounts_by_client_id[c].held
    /\ \A row \in output : row[4] = row[2] + row[3]
    /\ pc = "done" =>
            output = {<<c, accounts_by_client_id[c].available,
                        accounts_by_client_id[c].held,
                        accounts_by_client_id[c].available +
                            accounts_by_client_id[c].held,
                        accounts_by_client_id[c].is_locked>> :
                      c \in DOMAIN accounts_by_client_id}

\* the rows were written for a ledger with an account in deficit that has
\* funds held
C15_Witness ==
    /\ pc = "done"
    /\ \E row \in output : row[2] < 0 /\ row[3] > 0 /\ row[4] = row[2] + row[3]

\* where a run stands: nothing is written before the input is exhausted, a
\* rejection leaves the loop running with the next record still to be handled,
\* a run that is not over can always go on or end, and a run that ended
\* successfully wrote one row per account
RunState ==
    /\ ReturnedErr => pc = "running"
    /\ (ReturnedErr /\ n < MaxRecords) =>
            (ENABLED HandleStandard /\ ENABLED HandleDispute)
    /\ pc = "running" => (output = {} /\ ENABLED EndOfInput)
    /\ pc = "failed" => output = {}
    /\ pc = "done" =>
        /\ {row[1] : row \in output} = DOMAIN accounts_by_client_id
        /\ Cardinality(output) = Cardinality(DOMAIN accounts_by_client_id)
        /\ \A row \in output :
                row = Row(row[1], accounts_by_client_id[row[1]])

\* one step of a run: records are read one at a time while the run is on; the
\* step that fails the run handles no transaction and changes no account; the
\* ledger is written as it stands when the input ends
RunStep ==
    /\ pc = "running"
    /\ pc' = "running" => n' = n + 1
    /\ pc' = "failed" =>
        /\ last' = NoTransaction
        /\ UNCHANGED <<accounts_by_client_id, transactions_by_id, output>>
    /\ pc' = "done" =>
        UNCHANGED <<accounts_by_client_id, transactions_by_id>>

\* C16: the transactions of a finite input are applied one at a time in input
\* order; a ledger rejection does not stop the run, every later transaction is
\* still applied, and the run ends by writing one row per account.  Only a
\* malformed record stops the run: it fails at that record and no row is
\* written, not even for the transactions applied before it.
C16_RejectionsSkippedMalformedAborts ==
    /\ []RunState
    /\ [][RunStep]_vars

\* a run failed on a malformed record after transactions had been applied,
\* and wrote nothing
C16_Witness ==
    /\ pc = "failed"
    /\ n > 2
    /\ DOMAIN transactions_by_id # {}
    /\ DOMAIN accounts_by_client_id # {}
    /\ output = {}

\* the last call was a deposit / withdrawal under a recorded id that passed
\* the amount, lock and funds checks
DuplicatePassedChecks ==
    /\ DuplicateSubmitted
    /\ last.amount > 0
    /\ ~AccountBeforeOrNew.is_locked
    /\ ~(last.tx_type = "Withdrawal"
            /\ last.amount > AccountBeforeOrNew.available)

\* C17: the balance update of a deposit / withdrawal comes before the
\* duplicate-id check: a deposit or withdrawal whose id is already recorded and
\* which passes the amount, lock and funds checks is rejected as a duplicate
\* and is not recorded, but the client's available balance is changed by its
\* amount all the same (raised by a deposit, lowered by a withdrawal).
C17_DuplicateStillChangesBalance ==
    DuplicatePassedChecks =>
        /\ result = "DuplicateTransactionId"
        /\ transactions_by_id = prev_transactions
        /\ AccountAfter.available =
                IF last.tx_type = "Deposit"
                THEN AccountBeforeOrNew.available + last.amount
                ELSE AccountBeforeOrNew.available - last.amount
        /\ AccountAfter.held = AccountBeforeOrNew.held
        /\ AccountAfter.is_locked = AccountBeforeOrNew.is_locked

\* a withdrawal under its own deposit's id was rejected as a duplicate and
\* took its amount out of available
C17_Witness ==
    /\ DuplicatePassedChecks
    /\ last.tx_type = "Withdrawal"
    /\ prev_transactions[last.tx_id].tx_type = "Deposit"
    /\ result = "DuplicateTransactionId"
    /\ AccountAfter.available < AccountBefore.available

\* the answer the documented order of checks gives a deposit / withdrawal
DocumentedStandardResult ==
    IF last.amount <= 0 THEN "InvalidAmount"
    ELSE IF AccountBeforeOrNew.is_locked THEN "AccountLocked"
    ELSE IF last.tx_type = "Withdrawal"
            /\ last.amount > AccountBeforeOrNew.available
    THEN "InsufficientFunds"
    ELSE IF last.tx_id \in DOMAIN prev_transactions
    THEN "DuplicateTransactionId"
    ELSE "Ok"

\* the answer it gives a dispute / resolve / chargeback
DocumentedDisputeResult ==
    IF last.client_id \notin DOMAIN prev_accounts THEN "AccountNotFound"
    ELSE IF last.tx_id \notin DOMAIN prev_transactions
    THEN "TransactionNotFound"
    ELSE IF prev_transactions[last.tx_id].client_id # last.client_id
    THEN "ClientMismatch"
    ELSE IF prev_transactions[last.tx_id].tx_type = "Withdrawal"
    THEN "CannotDisputeWithdrawal"
    ELSE LET status == prev_transactions[last.tx_id].dispute_status
         IN  IF last.tx_type = "Dispute"
             THEN IF status = "None" THEN "Ok" ELSE "AlreadyDisputed"
             ELSE IF status = "None" THEN "NotDisputed"
             ELSE IF status = "Chargeback" THEN "AlreadyChargedBack"
             ELSE "Ok"

\* C18: the error returned is that of the first failing check in the
\* documented order.  Dispute family: no account for the asserted client, id
\* not recorded, client mismatch, referenced transaction is a withdrawal, the
\* status check of the kind.  Deposit / withdrawal: amount not positive,
\* account locked, (withdrawal) amount greater than available, duplicate id.
C18_FirstFailingCheckReported ==
    Called =>
        result = IF last.kind = "Standard"
                 THEN DocumentedStandardResult
                 ELSE DocumentedDisputeResult

\* a withdrawal that fails every check at once (amount not positive, account
\* locked, amount above a negative available, id recorded) was answered
\* invalid amount
C18_Witness ==
    /\ WithdrawalCalled
    /\ last.amount <= 0
    /\ last.client_id \in DOMAIN prev_accounts
    /\ AccountBefore.is_locked
    /\ last.amount > AccountBefore.available
    /\ last.tx_id \in DOMAIN prev_transactions
    /\ result = "InvalidAmount"

\* the recorded transactions this step changes or adds
TouchedTransactions ==
    {t \in DOMAIN transactions_by_id' :
        t \notin DOMAIN transactions_by_id
        \/ transactions_by_id'[t] # transactions_by_id[t]}

\* one step changes and adds no account but that of the client its
\* transaction names, removes no account and no recorded transaction, touches
\* at most one recorded transaction, and of a recorded transaction changes the
\* dispute status only
FrameStep ==
    /\ DOMAIN accounts_by_client_id \subseteq DOMAIN accounts_by_client_id'
    /\ DOMAIN transactions_by_id \subseteq DOMAIN transactions_by_id'
    /\ \A c \in DOMAIN accounts_by_client_id' :
            (c \notin DOMAIN accounts_by_client_id
                \/ accounts_by_client_id'[c] # accounts_by_client_id[c]) =>
                (last'.kind # "None" /\ last'.client_id = c)
    /\ Cardinality(TouchedTransactions) <= 1
    /\ \A t \in TouchedTransactions :
            last'.kind # "None" /\ last'.tx_id = t
    /\ \A t \in DOMAIN transactions_by_id :
            /\ transactions_by_id'[t].client_id = transactions_by_id[t].client_id
            /\ transactions_by_id'[t].tx_type = transactions_by_id[t].tx_type
            /\ transactions_by_id'[t].amount = transactions_by_id[t].amount
    /\ \A t \in DOMAIN transactions_by_id' \ DOMAIN transactions_by_id :
            /\ last'.kind = "Standard"
            /\ transactions_by_id'[t] = StoredTransaction(last')

\* C19: handling a transaction that names client c changes no account other
\* than c's, never removes an account or a recorded transaction, and changes
\* at most one recorded transaction; a recorded transaction's id, client id,
\* kind and amount never change, only its dispute status can.
C19_FrameOfOneTransaction == [][FrameStep]_vars

\* a dispute of one client was accepted while another client had funds and a
\* recorded transaction, all of which it left alone
C19_Witness ==
    /\ DisputeFamilyOn("Dispute", "None")
    /\ result = "Ok"
    /\ \E c \in DOMAIN prev_accounts \ {last.client_id} :
            /\ prev_accounts[c].available > 0
            /\ accounts_by_client_id[c] = prev_accounts[c]
    /\ \E t \in DOMAIN prev_transactions \ {last.tx_id} :
            /\ prev_transactions[t].client_id # last.client_id
            /\ transactions_by_id[t] = prev_transactions[t]

\* C20: handle_transaction never crashes: for every transaction, whatever its
\* amount, it returns success or an error value, also when a deposit or a
\* resolve would raise available, or a dispute raise held or lower available,
\* beyond the range of the decimal type.
C20_HandleTransactionNeverCrashes == result # "Panic" /\ pc # "panicked"

\* the recorded transactions of client c whose dispute status is status
WithStatus(transactions, c, status) ==
    {t \in DOMAIN transactions :
        /\ transactions[t].client_id = c
        /\ transactions[t].dispute_status = status}

RECURSIVE SumOfAmounts(_, _)
\* the sum of the amounts of the recorded transactions ids
SumOfAmounts(transactions, ids) ==
    IF ids = {}
    THEN 0
    ELSE LET t == CHOOSE x \in ids : TRUE
         IN  transactions[t].amount + SumOfAmounts(transactions, ids \ {t})

\* the amounts of client c under an open dispute
OpenDisputed(c) ==
    SumOfAmounts(transactions_by_id,
                 WithStatus(transactions_by_id, c, "Unresolved"))

\* C21: in every reachable state, for every client, held equals the sum of
\* the amounts of that client's recorded transactions whose dispute status is
\* Unresolved; hence held is never negative, is 0 when the client has no open
\* dispute, and several open disputes of one client add up.
C21_HeldIsSumOfOpenDisputes ==
    \A c \in Clients :
        /\ HeldOf(accounts_by_client_id, c) = OpenDisputed(c)
        /\ HeldOf(accounts_by_client_id, c) >= 0
        /\ WithStatus(transactions_by_id, c, "Unresolved") = {} =>
                HeldOf(accounts_by_client_id, c) = 0

\* one client has two open disputes, on deposits of different amounts, and
\* holds the sum of the two
C21_Witness ==
    \E c \in DOMAIN accounts_by_client_id :
        \E t1, t2 \in WithStatus(transactions_by_id, c, "Unresolved") :
            /\ t1 # t2
            /\ transactions_by_id[t1].amount # transactions_by_id[t2].amount
            /\ accounts_by_client_id[c].held =
                    transactions_by_id[t1].amount + transactions_by_id[t2].amount

\* the recorded transactions of client c whose type is tx_type
OfType(transactions, c, tx_type) ==
    {t \in DOMAIN transactions :
        /\ transactions[t].client_id = c
        /\ transactions[t].tx_type = tx_type}

\* available + held of client c, 0 for a client without an account
TotalOf(accounts, c) ==
    IF c \in DOMAIN accounts THEN Account_total(accounts[c]) ELSE 0

\* what the recorded transactions of client c leave: the deposits, less the
\* withdrawals, less the deposits charged back
RecordedFunds(c) ==
    SumOfAmounts(transactions_by_id,
                 OfType(transactions_by_id, c, "Deposit"))
    - SumOfAmounts(transactions_by_id,
                   OfType(transactions_by_id, c, "Withdrawal"))
    - SumOfAmounts(transactions_by_id,
                   OfType(transactions_by_id, c, "Deposit")
                   \cap WithStatus(transactions_by_id, c, "Chargeback"))

\* C22: conservation of funds: in any run in which no two deposit /
\* withdrawal records share a transaction id, for every client at every point
\* available + held equals the sum of the client's recorded deposits, minus
\* the sum of the client's recorded withdrawals, minus the sum of the client's
\* deposits whose status is ChargedBack.
C22_ConservationOfFunds ==
    ~ids_shared =>
        \A c \in Clients :
            TotalOf(accounts_by_client_id, c) = RecordedFunds(c)

\* no id was used twice, and one client has a recorded withdrawal and a
\* deposit charged back: all three terms of the sum count
C22_Witness ==
    /\ ~ids_shared
    /\ \E c \in DOMAIN accounts_by_client_id :
            /\ OfType(transactions_by_id, c, "Withdrawal") # {}
            /\ OfType(transactions_by_id, c, "Deposit")
                    \cap WithStatus(transactions_by_id, c, "Chargeback") # {}
            /\ TotalOf(accounts_by_client_id, c) = RecordedFunds(c)
            /\ TotalOf(accounts_by_client_id, c) < 0

\* the last call named a client that had no account before it
OnUnseenClient == Called /\ last.client_id \notin DOMAIN prev_accounts

\* the last call was one that must not create an account: a dispute, resolve
\* or chargeback, or a deposit / withdrawal of a non-positive amount
NotCreating ==
    /\ Called
    /\ last.kind = "Dispute" \/ last.amount <= 0

\* what the last call leaves of an account it created: Account::new with the
\* deposit added (a withdrawal from a new account finds no funds)
CreatedAccount ==
    [Account_new(last.client_id) EXCEPT
        !.available = IF last.tx_type = "Deposit" THEN last.amount ELSE 0]

\* C23: an account exists for client c (and appears in the final listing) if
\* and only if some deposit or withdrawal for c with a strictly positive
\* amount has been submitted, whether it was accepted or rejected; a deposit /
\* withdrawal with a non-positive amount and a dispute, resolve or chargeback
\* never create an account, and a newly created account starts with
\* available 0, held 0 and locked false.
C23_AccountIffPositiveStandardSubmitted ==
    /\ DOMAIN accounts_by_client_id = submitted_clients
    /\ pc = "done" => {row[1] : row \in output} = submitted_clients
    /\ NotCreating => DOMAIN accounts_by_client_id = DOMAIN prev_accounts
    /\ (OnUnseenClient /\ ~NotCreating) =>
            /\ DOMAIN accounts_by_client_id =
                    DOMAIN prev_accounts \cup {last.client_id}
            /\ accounts_by_client_id[last.client_id] = CreatedAccount

\* after records that created no account, a withdrawal for a client without
\* one was rejected and left the client a new account: 0, 0, not locked
C23_Witness ==
    /\ OnUnseenClient
    /\ n >= 2
    /\ prev_accounts = <<>>
    /\ last.kind = "Standard"
    /\ last.tx_type = "Withdrawal"
    /\ result = "InsufficientFunds"
    /\ DOMAIN accounts_by_client_id = {last.client_id}
    /\ accounts_by_client_id[last.client_id] = Account_new(last.client_id)

====
